---- MODULE Spec2Model ----
(***************************************************************************)
(* The CrowdFunding zkApp (src/src/CrowdFunding.ts) as a state machine.    *)
(*                                                                         *)
(* A method call is one atomic transaction: every assert* of the method is *)
(* a constraint of its circuit, every getAndRequireEquals a precondition   *)
(* of its account update, and every send a ledger transfer that fails the  *)
(* whole transaction when the paying account cannot cover it.  A call that *)
(* violates any of them changes nothing on chain.  The checks are modelled *)
(* in source order, so the recorded status is the first one that fails.    *)
(*                                                                         *)
(* ensureContribution is declared async and called without await.  Its     *)
(* body holds no await, so its four assertions run, in order, before       *)
(* calculateAmount, and they are constraints of the contribute circuit     *)
(* like any other: a transaction that violates one has no valid proof.     *)
(*                                                                         *)
(* UInt32/UInt64 arithmetic in o1js is range-checked (add, sub and mul     *)
(* assert the result fits).  All values of the model stay far below 2^32,  *)
(* so only the subtraction checks can fire; they are guarded by the        *)
(* comparisons the source makes first.                                     *)
(***************************************************************************)
EXTENDS Integers, Sequences, FiniteSets, TLC

\* ---- bounds of the model ----
\* longest event log explored (Deploy + contributions + withdrawals)
MaxEvents == 6
\* what every identity holds on the ledger when the campaign is deployed
InitialFunds == 1000

\* ---- program constants ----
InitialPercentage == 20
SubsequentPercentage == 10
PercentBase == 100
IntervalBlocks == 200

\* ---- inputs ----
Users == {"alice", "bob"}
Deployers == {"alice"}
Deadlines == {100}
MinimumInvestments == {10}
HardCaps == {27, 1000, 1200}
Amounts == {5, 10, 500, 600}
Heights == {50, 60, 70, 100, 150, 200, 300, 350, 500}

OK == "ok"

VARIABLES
    investor,           \* @state investor
    deadline,           \* @state deadline
    minimumInvestment,  \* @state minimumInvestment
    hardCap,            \* @state hardCap
    withdrawnCnt,       \* @state withdrawnCnt
    balance,            \* this.account.balance of the campaign account
    height,             \* this.network.blockchainLength
    funds,              \* ledger balance of every identity
    events,             \* the emitted events, oldest first
    lastCall            \* the latest method call at this height and its outcome

vars == <<investor, deadline, minimumInvestment, hardCap, withdrawnCnt,
          balance, height, funds, events, lastCall>>

NoCall == [op |-> "none", sender |-> "none", amount |-> 0, status |-> OK,
           paid |-> 0, preBalance |-> 0, preCnt |-> 0, preFunds |-> 0]

DeployEvent(who, d, m, h, t) ==
    [type |-> "Deploy", who |-> who, deadline |-> d, minimumInvestment |-> m,
     hardCap |-> h, amount |-> 0, timestamp |-> t]

ContributedEvent(who, a, t) ==
    [type |-> "Contributed", who |-> who, deadline |-> 0, minimumInvestment |-> 0,
     hardCap |-> 0, amount |-> a, timestamp |-> t]

WithdrawnEvent(who, a, t) ==
    [type |-> "Withdrawn", who |-> who, deadline |-> 0, minimumInvestment |-> 0,
     hardCap |-> 0, amount |-> a, timestamp |-> t]

\* deploy(args): the state right after the deploy transaction
deploy(sender, d, m, h, t) ==
    /\ investor = sender
    /\ deadline = d
    /\ minimumInvestment = m
    /\ hardCap = h
    /\ withdrawnCnt = 0
    /\ balance = 0
    /\ height = t
    /\ funds = [u \in Users |-> InitialFunds]
    /\ events = <<DeployEvent(sender, d, m, h, t)>>
    /\ lastCall = NoCall

Init ==
    \E sender \in Deployers, d \in Deadlines, m \in MinimumInvestments, h \in HardCaps :
        deploy(sender, d, m, h, 50)

\* ensureContribution without the deadline assertion
ensureContribution_NoDeadline(sender, amount) ==
    IF sender = investor THEN "Investor cannot contribute"
    ELSE IF ~(amount >= minimumInvestment) THEN "Minimum investment not met"
    ELSE IF ~(balance < hardCap) THEN "HardCap reached"
    ELSE OK

\* ensureContribution without the investor assertion
ensureContribution_AnySender(sender, amount) ==
    IF ~(height <= deadline) THEN "Deadline reached"
    ELSE IF ~(amount >= minimumInvestment) THEN "Minimum investment not met"
    ELSE IF ~(balance < hardCap) THEN "HardCap reached"
    ELSE OK

\* ensureContribution without the minimum investment assertion
ensureContribution_NoMinimum(sender, amount) ==
    IF ~(height <= deadline) THEN "Deadline reached"
    ELSE IF sender = investor THEN "Investor cannot contribute"
    ELSE IF ~(balance < hardCap) THEN "HardCap reached"
    ELSE OK

\* ensureContribution whose hard cap assertion counts the offered amount in
ensureContribution_AmountInclusive(sender, amount) ==
    IF ~(height <= deadline) THEN "Deadline reached"
    ELSE IF sender = investor THEN "Investor cannot contribute"
    ELSE IF ~(amount >= minimumInvestment) THEN "Minimum investment not met"
    ELSE IF ~(balance + amount <= hardCap) THEN "HardCap reached"
    ELSE OK

\* ensureContribution: the first assertion that fails, or OK
ensureContribution(sender, amount) ==
    IF ~(height <= deadline) THEN "Deadline reached"
    ELSE IF sender = investor THEN "Investor cannot contribute"
    ELSE IF ~(amount >= minimumInvestment) THEN "Minimum investment not met"
    ELSE IF ~(balance < hardCap) THEN "HardCap reached"
    ELSE OK

\* calculateAmount that returns the requested amount unclamped
calculateAmount_NoClamp(amount) == amount

\* calculateAmount that takes the whole hard cap as the remaining room
calculateAmount_IgnoresBalance(amount) ==
    LET remaining == hardCap
    IN  IF amount <= remaining THEN amount ELSE remaining

calculateAmount(amount) ==
    LET remaining == hardCap - balance
    IN  IF amount <= remaining THEN amount ELSE remaining

\* incrementWithdrawal that counts a withdrawal twice
incrementWithdrawal_Twice(cnt) == cnt + 2

incrementWithdrawal(cnt) == cnt + 1

blocksSinceDeadline == height - deadline

\* isInitialWithdrawal read after incrementWithdrawal instead of before it
isInitialWithdrawal_AfterIncrement == incrementWithdrawal(withdrawnCnt) = 0

isInitialWithdrawal == withdrawnCnt = 0

\* withdrawalInterval that does not grow with withdrawnCnt
withdrawalInterval_Fixed == IntervalBlocks

\* withdrawalInterval that starts counting intervals one withdrawal late
withdrawalInterval_OffByOne == (withdrawnCnt - 1) * IntervalBlocks

withdrawalInterval == withdrawnCnt * IntervalBlocks

\* isSubsequentWithdrawal without the schedule comparison
isSubsequentWithdrawal_Always == TRUE

isSubsequentWithdrawal == blocksSinceDeadline >= withdrawalInterval

\* ensureWithdraw without the deadline assertion
ensureWithdraw_NoDeadline(sender) ==
    [status |->
        IF ~(sender = investor) THEN "Only investor can withdraw"
        ELSE IF ~(balance > 0) THEN "No balance to withdraw"
        ELSE IF ~(isInitialWithdrawal \/ isSubsequentWithdrawal)
             THEN "Withdrawal not allowed"
        ELSE OK,
     percentage |-> IF isInitialWithdrawal THEN InitialPercentage
                    ELSE SubsequentPercentage,
     withdrawnCnt |-> incrementWithdrawal(withdrawnCnt)]

\* ensureWithdraw without the investor assertion
ensureWithdraw_AnySender(sender) ==
    [status |->
        IF ~(balance > 0) THEN "No balance to withdraw"
        ELSE IF ~(height >= deadline) THEN "Deadline reached"
        ELSE IF ~(isInitialWithdrawal \/ isSubsequentWithdrawal)
             THEN "Withdrawal not allowed"
        ELSE OK,
     percentage |-> IF isInitialWithdrawal THEN InitialPercentage
                    ELSE SubsequentPercentage,
     withdrawnCnt |-> incrementWithdrawal(withdrawnCnt)]

\* ensureWithdraw: the first assertion that fails (or OK), the percentage it
\* returns and the withdrawnCnt it leaves
ensureWithdraw(sender) ==
    [status |->
        IF ~(sender = investor) THEN "Only investor can withdraw"
        ELSE IF ~(balance > 0) THEN "No balance to withdraw"
        ELSE IF ~(height >= deadline) THEN "Deadline reached"
        ELSE IF ~(isInitialWithdrawal \/ isSubsequentWithdrawal)
             THEN "Withdrawal not allowed"
        ELSE OK,
     percentage |-> IF isInitialWithdrawal THEN InitialPercentage
                    ELSE SubsequentPercentage,
     withdrawnCnt |-> incrementWithdrawal(withdrawnCnt)]

\* a rejection that keeps the state update made before the transfer failed
Rejected_KeepsIncrement(op, sender, amount, status) ==
    /\ lastCall' = [op |-> op, sender |-> sender, amount |-> amount, status |-> status,
                    paid |-> 0, preBalance |-> balance, preCnt |-> withdrawnCnt,
                    preFunds |-> funds[sender]]
    /\ withdrawnCnt' = IF status = "Insufficient campaign balance"
                       THEN incrementWithdrawal(withdrawnCnt)
                       ELSE withdrawnCnt
    /\ UNCHANGED <<investor, deadline, minimumInvestment, hardCap,
                   balance, height, funds, events>>

\* a rejected transaction: nothing on chain changes
Rejected(op, sender, amount, status) ==
    /\ lastCall' = [op |-> op, sender |-> sender, amount |-> amount, status |-> status,
                    paid |-> 0, preBalance |-> balance, preCnt |-> withdrawnCnt,
                    preFunds |-> funds[sender]]
    /\ UNCHANGED <<investor, deadline, minimumInvestment, hardCap, withdrawnCnt,
                   balance, height, funds, events>>

contribute(sender, amount) ==
    LET status == ensureContribution(sender, amount)
        canContributeAmount == calculateAmount(amount)
    IN  /\ Len(events) < MaxEvents
        /\ IF status # OK
           THEN Rejected("contribute", sender, amount, status)
           ELSE IF funds[sender] < canContributeAmount
           THEN Rejected("contribute", sender, amount, "Insufficient sender balance")
           ELSE /\ funds' = [funds EXCEPT ![sender] = @ - canContributeAmount]
                /\ balance' = balance + canContributeAmount
                /\ events' = Append(events,
                                ContributedEvent(sender, canContributeAmount, height))
                /\ lastCall' = [op |-> "contribute", sender |-> sender,
                                amount |-> amount, status |-> OK,
                                paid |-> canContributeAmount, preBalance |-> balance,
                                preCnt |-> withdrawnCnt, preFunds |-> funds[sender]]
                /\ UNCHANGED <<investor, deadline, minimumInvestment, hardCap,
                               withdrawnCnt, height>>

\* withdraw that also writes what is left to pay into hardCap
withdraw_LowersHardCap(sender) ==
    LET ensured == ensureWithdraw(sender)
        amountToWithdraw == (hardCap * ensured.percentage) \div PercentBase
    IN  /\ Len(events) < MaxEvents
        /\ IF ensured.status # OK
           THEN Rejected("withdraw", sender, 0, ensured.status)
           ELSE IF balance < amountToWithdraw
           THEN Rejected("withdraw", sender, 0, "Insufficient campaign balance")
           ELSE /\ withdrawnCnt' = ensured.withdrawnCnt
                /\ hardCap' = hardCap - amountToWithdraw
                /\ balance' = balance - amountToWithdraw
                /\ funds' = [funds EXCEPT ![sender] = @ + amountToWithdraw]
                /\ events' = Append(events,
                                WithdrawnEvent(sender, amountToWithdraw, height))
                /\ lastCall' = [op |-> "withdraw", sender |-> sender,
                                amount |-> 0, status |-> OK,
                                paid |-> amountToWithdraw, preBalance |-> balance,
                                preCnt |-> withdrawnCnt, preFunds |-> funds[sender]]
                /\ UNCHANGED <<investor, deadline, minimumInvestment, height>>

\* withdraw whose transfer is not checked against the campaign balance
withdraw_UncheckedTransfer(sender) ==
    LET ensured == ensureWithdraw(sender)
        amountToWithdraw == (hardCap * ensured.percentage) \div PercentBase
    IN  /\ Len(events) < MaxEvents
        /\ IF ensured.status # OK
           THEN Rejected("withdraw", sender, 0, ensured.status)
           ELSE /\ withdrawnCnt' = ensured.withdrawnCnt
                /\ balance' = balance - amountToWithdraw
                /\ funds' = [funds EXCEPT ![sender] = @ + amountToWithdraw]
                /\ events' = Append(events,
                                WithdrawnEvent(sender, amountToWithdraw, height))
                /\ lastCall' = [op |-> "withdraw", sender |-> sender,
                                amount |-> 0, status |-> OK,
                                paid |-> amountToWithdraw, preBalance |-> balance,
                                preCnt |-> withdrawnCnt, preFunds |-> funds[sender]]
                /\ UNCHANGED <<investor, deadline, minimumInvestment, hardCap, height>>

withdraw(sender) ==
    LET ensured == ensureWithdraw(sender)
        amountToWithdraw == (hardCap * ensured.percentage) \div PercentBase
    IN  /\ Len(events) < MaxEvents
        /\ IF ensured.status # OK
           THEN Rejected("withdraw", sender, 0, ensured.status)
           ELSE IF balance < amountToWithdraw
           THEN Rejected("withdraw", sender, 0, "Insufficient campaign balance")
           ELSE /\ withdrawnCnt' = ensured.withdrawnCnt
                /\ balance' = balance - amountToWithdraw
                /\ funds' = [funds EXCEPT ![sender] = @ + amountToWithdraw]
                /\ events' = Append(events,
                                WithdrawnEvent(sender, amountToWithdraw, height))
                /\ lastCall' = [op |-> "withdraw", sender |-> sender,
                                amount |-> 0, status |-> OK,
                                paid |-> amountToWithdraw, preBalance |-> balance,
                                preCnt |-> withdrawnCnt, preFunds |-> funds[sender]]
                /\ UNCHANGED <<investor, deadline, minimumInvestment, hardCap, height>>

\* the chain grows; the contract sees the height only when it is called
AdvanceHeight ==
    /\ \E h \in Heights : h > height /\ height' = h
    /\ lastCall' = NoCall
    /\ UNCHANGED <<investor, deadline, minimumInvestment, hardCap, withdrawnCnt,
                   balance, funds, events>>

Contribute == \E sender \in Users, amount \in Amounts : contribute(sender, amount)

Withdraw == \E sender \in Users : withdraw(sender)

Next == Contribute \/ Withdraw \/ AdvanceHeight

Spec == Init /\ [][Next]_vars

\* ---- reading the event log and the latest call ----
Min(a, b) == IF a <= b THEN a ELSE b

\* positions of the Withdrawn events in the log
WithdrawnIdx == {i \in DOMAIN events : events[i].type = "Withdrawn"}

\* successful withdrawals so far
NumWithdrawn == Cardinality(WithdrawnIdx)

\* successful withdrawals logged before position i
WithdrawnBefore(i) == Cardinality({j \in WithdrawnIdx : j < i})

\* positions i < j of two Withdrawn events with no Withdrawn event between them
ConsecutiveWithdrawn(i, j) ==
    /\ i \in WithdrawnIdx
    /\ j \in WithdrawnIdx
    /\ i < j
    /\ ~(\E k \in WithdrawnIdx : i < k /\ k < j)

ContributeSucceeded == lastCall.op = "contribute" /\ lastCall.status = OK

WithdrawSucceeded == lastCall.op = "withdraw" /\ lastCall.status = OK

\* the latest call was rejected and the chain is as it was before the call
CallRejected ==
    /\ lastCall.status # OK
    /\ balance = lastCall.preBalance
    /\ withdrawnCnt = lastCall.preCnt
    /\ funds[lastCall.sender] = lastCall.preFunds

\* C1: a successful contribute(amount) raises the campaign balance by exactly
\* min(amount, hardCap - preBalance), charges the caller that clamped amount
\* and logs it; the increase never exceeds the room left under the cap.
C1_ContributeAddsClampedAmount ==
    ContributeSucceeded =>
        LET accepted == Min(lastCall.amount, hardCap - lastCall.preBalance)
        IN  /\ balance - lastCall.preBalance = accepted
            /\ funds[lastCall.sender] = lastCall.preFunds - accepted
            /\ events[Len(events)] =
                   ContributedEvent(lastCall.sender, accepted, height)
            /\ accepted <= hardCap - lastCall.preBalance

\* a contribution that asked for more than the room left and was cut down
C1_Witness ==
    /\ ContributeSucceeded
    /\ lastCall.preBalance > 0
    /\ lastCall.amount > hardCap - lastCall.preBalance
    /\ balance - lastCall.preBalance < lastCall.amount

\* C2: in every state reached by contribute and withdraw calls the campaign
\* balance is at most hardCap.
C2_BalanceAtMostHardCap == balance <= hardCap

\* the campaign is full and a further contribution has been turned away
C2_Witness ==
    /\ balance = hardCap
    /\ lastCall.op = "contribute"
    /\ lastCall.status = "HardCap reached"

\* C3: the first successful withdraw pays floor(hardCap * 20 / 100) to the
\* investor and leaves withdrawnCnt at 1.
C3_FirstWithdrawPaysTwentyPercent ==
    (WithdrawSucceeded /\ NumWithdrawn = 1) =>
        LET payout == (hardCap * 20) \div 100
        IN  /\ lastCall.preBalance - balance = payout
            /\ lastCall.sender = investor
            /\ funds[investor] = lastCall.preFunds + payout
            /\ events[Len(events)] = WithdrawnEvent(investor, payout, height)
            /\ withdrawnCnt = 1

\* the first withdrawal of a campaign whose 20% is not a whole number
C3_Witness ==
    /\ WithdrawSucceeded
    /\ NumWithdrawn = 1
    /\ (hardCap * 20) % 100 # 0
    /\ lastCall.preBalance - balance > 0

\* C4: the N-th successful withdraw, N >= 2, pays floor(hardCap * 10 / 100)
\* and happens at a height with height - deadline >= (N-1) * 200; a withdraw
\* called after N-1 >= 1 withdrawals at a lower height is rejected.
C4_LaterWithdrawPaysTenPercentOnSchedule ==
    /\ (WithdrawSucceeded /\ NumWithdrawn >= 2) =>
           /\ lastCall.preBalance - balance = (hardCap * 10) \div 100
           /\ funds[investor] = lastCall.preFunds + (hardCap * 10) \div 100
           /\ height - deadline >= (NumWithdrawn - 1) * 200
    /\ (lastCall.op = "withdraw" /\ lastCall.preCnt >= 1
            /\ height - deadline < lastCall.preCnt * 200) =>
           /\ CallRejected
           /\ NumWithdrawn = lastCall.preCnt

\* the third withdrawal, made at the first height that allows it
C4_Witness ==
    /\ WithdrawSucceeded
    /\ NumWithdrawn = 3
    /\ height - deadline >= 400
    /\ lastCall.preBalance - balance > 0

\* C5 as stated: two consecutive successful withdrawals are at least 200
\* blocks apart.
C5_ConsecutiveWithdrawalsSpaced ==
    \A i, j \in DOMAIN events :
        ConsecutiveWithdrawn(i, j) =>
            events[j].timestamp - events[i].timestamp >= 200

\* C5 as amended: the withdrawal that follows the N-th one happens at height
\* deadline + N * 200 or later, which is 200 blocks after the earliest height
\* deadline + (N-1) * 200 of the N-th one; it is 200 blocks after the N-th
\* withdrawal itself when that one was made at its earliest height.
C5_WithdrawalsFollowDeadlineSchedule ==
    \A i, j \in DOMAIN events :
        ConsecutiveWithdrawn(i, j) =>
            LET n == WithdrawnBefore(i) + 1
            IN  /\ events[j].timestamp >= deadline + n * 200
                /\ events[i].timestamp >= deadline + (n - 1) * 200
                /\ (events[i].timestamp = deadline + (n - 1) * 200 =>
                       events[j].timestamp - events[i].timestamp >= 200)

\* a withdrawal made at its earliest height, followed by the next one
C5_Witness ==
    \E i, j \in DOMAIN events :
        /\ ConsecutiveWithdrawn(i, j)
        /\ events[i].timestamp = deadline + WithdrawnBefore(i) * 200
        /\ events[j].timestamp - events[i].timestamp >= 200

\* C6: withdraw is rejected whenever the height is strictly below the
\* deadline, whoever calls and whatever the balance and withdrawnCnt are.
C6_WithdrawBeforeDeadlineRejected ==
    (lastCall.op = "withdraw" /\ height < deadline) =>
        /\ CallRejected
        /\ NumWithdrawn = 0

\* the investor tries to withdraw from a funded campaign before the deadline
C6_Witness ==
    /\ lastCall.op = "withdraw"
    /\ lastCall.sender = investor
    /\ balance > 0
    /\ height < deadline
    /\ lastCall.status = "Deadline reached"

\* C7: withdraw by an identity other than the stored investor is rejected in
\* every state, and whenever the campaign balance goes down, what left it
\* went to the investor and to nobody else.
C7_OnlyInvestorWithdraws ==
    /\ []((lastCall.op = "withdraw" /\ lastCall.sender # investor) => CallRejected)
    /\ [][balance' < balance =>
              funds' = [funds EXCEPT ![investor] = @ + (balance - balance')]]_vars

\* somebody else tries to withdraw from a funded campaign after the deadline
C7_Witness ==
    /\ lastCall.op = "withdraw"
    /\ lastCall.sender # investor
    /\ balance > 0
    /\ height >= deadline
    /\ withdrawnCnt = 0
    /\ lastCall.status = "Only investor can withdraw"

\* C8: contribute is rejected whenever the height is strictly greater than
\* the deadline, whoever calls and whatever the amount and the balance are.
C8_ContributeAfterDeadlineRejected ==
    (lastCall.op = "contribute" /\ height > deadline) =>
        /\ CallRejected
        /\ \A i \in DOMAIN events :
               events[i].type = "Contributed" => events[i].timestamp <= deadline

\* a backer offers enough to a campaign with room left, after the deadline
C8_Witness ==
    /\ lastCall.op = "contribute"
    /\ lastCall.sender # investor
    /\ lastCall.amount >= minimumInvestment
    /\ balance < hardCap
    /\ height > deadline
    /\ lastCall.status = "Deadline reached"

\* C9: contribute called by the investor is rejected for every amount and in
\* every state, also when every other precondition of contribute holds.
C9_InvestorContributeRejected ==
    /\ (lastCall.op = "contribute" /\ lastCall.sender = investor) => CallRejected
    /\ \A i \in DOMAIN events :
           events[i].type = "Contributed" => events[i].who # investor

\* the investor offers enough, in time, to a campaign with room left
C9_Witness ==
    /\ lastCall.op = "contribute"
    /\ lastCall.sender = investor
    /\ lastCall.amount >= minimumInvestment
    /\ balance < hardCap
    /\ height <= deadline
    /\ funds[investor] >= lastCall.amount
    /\ lastCall.status = "Investor cannot contribute"

\* C10 as stated: every successful contribute transfers at least
\* minimumInvestment to the campaign.
C10_AcceptedAtLeastMinimum ==
    ContributeSucceeded => balance - lastCall.preBalance >= minimumInvestment

\* C10 as amended: every successful contribute was called with an amount of
\* at least minimumInvestment, and transfers at least minimumInvestment
\* unless less room than that was left under the cap, in which case it
\* transfers exactly the room left and fills the campaign.
C10_RequestedAtLeastMinimum ==
    ContributeSucceeded =>
        /\ lastCall.amount >= minimumInvestment
        /\ \/ balance - lastCall.preBalance >= minimumInvestment
           \/ /\ hardCap - lastCall.preBalance < minimumInvestment
              /\ balance - lastCall.preBalance = hardCap - lastCall.preBalance
              /\ balance = hardCap

\* a contribution cut down to less than the minimum by the room left
C10_Witness ==
    /\ ContributeSucceeded
    /\ lastCall.amount >= minimumInvestment
    /\ balance - lastCall.preBalance < minimumInvestment
    /\ balance - lastCall.preBalance > 0

\* C11: withdrawnCnt is 0 after deploy; a step that logs a Withdrawn event (a
\* successful withdraw) raises it by exactly 1, and every other step, a
\* contribute or a rejected call, leaves it as it was, so it never decreases.
C11_WithdrawnCntCountsWithdrawals ==
    /\ withdrawnCnt = 0
    /\ [][withdrawnCnt' =
             IF Len(events') > Len(events)
                /\ events'[Len(events')].type = "Withdrawn"
             THEN withdrawnCnt + 1
             ELSE withdrawnCnt]_vars

\* after two withdrawals a third one, called too early, has been rejected
C11_Witness ==
    /\ withdrawnCnt = 2
    /\ lastCall.op = "withdraw"
    /\ lastCall.sender = investor
    /\ lastCall.status = "Withdrawal not allowed"

\* C12: investor, deadline, minimumInvestment and hardCap keep the values
\* deploy gave them (the ones the Deploy event records) after every sequence
\* of contribute and withdraw calls, successful or rejected.
C12_DeployedFieldsImmutable ==
    /\ events[1].type = "Deploy"
    /\ investor = events[1].who
    /\ deadline = events[1].deadline
    /\ minimumInvestment = events[1].minimumInvestment
    /\ hardCap = events[1].hardCap

\* contributions and a withdrawal have succeeded and a call has been rejected
C12_Witness ==
    /\ \E i \in DOMAIN events : events[i].type = "Contributed"
    /\ NumWithdrawn >= 1
    /\ lastCall.op # "none"
    /\ lastCall.status # OK

\* C13: a rejected contribute or withdraw leaves the campaign balance, every
\* identity's funds, withdrawnCnt and the event log as they were before the
\* call; a withdraw rejected after incrementWithdrawal ran leaves
\* withdrawnCnt unchanged.
C13_RejectedCallChangesNothing ==
    [][lastCall'.status # OK =>
           /\ balance' = balance
           /\ funds' = funds
           /\ withdrawnCnt' = withdrawnCnt
           /\ events' = events]_vars

\* a withdraw that passed every assertion and failed at the transfer
C13_Witness ==
    /\ lastCall.op = "withdraw"
    /\ lastCall.status = "Insufficient campaign balance"
    /\ withdrawnCnt = lastCall.preCnt
    /\ balance = lastCall.preBalance

\* the campaign of the scenario: hardCap 1000, minimumInvestment 10, deadline 100
ScenarioCampaign == hardCap = 1000 /\ minimumInvestment = 10 /\ deadline = 100

\* a backer's contribute call that respects the minimum
BackerOffers ==
    /\ lastCall.op = "contribute"
    /\ lastCall.sender # investor
    /\ lastCall.amount >= minimumInvestment

\* the event log the scenario leaves, for backer b and investor v
ScenarioLog(b, v) ==
    <<DeployEvent(v, 100, 10, 1000, 50),
      ContributedEvent(b, 600, 50),
      ContributedEvent(b, 400, 60),
      WithdrawnEvent(v, 200, 150),
      WithdrawnEvent(v, 100, 350)>>

\* C14: in the campaign with hardCap 1000, minimumInvestment 10, deadline 100:
\* contribute(600) at height 50 on the empty campaign accepts 600 (balance
\* 600); contribute(500) at height 60 accepts 400 (balance 1000); a further
\* contribute at height 70 is rejected with "HardCap reached"; withdraw at
\* height 150 pays 200 (withdrawnCnt 1, balance 800); withdraw at height 200
\* is rejected with "Withdrawal not allowed"; withdraw at height 350 pays 100
\* (withdrawnCnt 2, balance 700).
C14_ScenarioTrace ==
    ScenarioCampaign =>
        /\ (BackerOffers /\ lastCall.amount = 600 /\ height = 50
                /\ lastCall.preBalance = 0 /\ lastCall.preFunds >= 600) =>
               /\ lastCall.status = OK
               /\ events[Len(events)].amount = 600
               /\ balance = 600
        /\ (BackerOffers /\ lastCall.amount = 500 /\ height = 60
                /\ lastCall.preBalance = 600 /\ lastCall.preFunds >= 400) =>
               /\ lastCall.status = OK
               /\ events[Len(events)].amount = 400
               /\ balance = 1000
        /\ (BackerOffers /\ height = 70 /\ lastCall.preBalance = 1000) =>
               /\ lastCall.status = "HardCap reached"
               /\ balance = 1000
        /\ (lastCall.op = "withdraw" /\ lastCall.sender = investor /\ height = 150
                /\ lastCall.preCnt = 0 /\ lastCall.preBalance = 1000) =>
               /\ lastCall.status = OK
               /\ events[Len(events)].amount = 200
               /\ withdrawnCnt = 1
               /\ balance = 800
        /\ (lastCall.op = "withdraw" /\ lastCall.sender = investor /\ height = 200
                /\ lastCall.preCnt = 1 /\ lastCall.preBalance = 800) =>
               /\ lastCall.status = "Withdrawal not allowed"
               /\ withdrawnCnt = 1
               /\ balance = 800
        /\ (lastCall.op = "withdraw" /\ lastCall.sender = investor /\ height = 350
                /\ lastCall.preCnt = 1 /\ lastCall.preBalance = 800) =>
               /\ lastCall.status = OK
               /\ events[Len(events)].amount = 100
               /\ withdrawnCnt = 2
               /\ balance = 700

\* the end of the scenario: its four accepted calls, and only they, are logged
C14_Witness ==
    /\ ScenarioCampaign
    /\ \E b \in Users : b # investor /\ events = ScenarioLog(b, investor)
    /\ WithdrawSucceeded
    /\ withdrawnCnt = 2
    /\ balance = 700

\* C15: withdraw is rejected only for a violated listed precondition: called
\* by the investor with balance > 0, height >= deadline and withdrawnCnt = 0
\* or height - deadline >= withdrawnCnt * 200, it succeeds, transfers its
\* percentage of hardCap to the investor and increments withdrawnCnt.
C15_WithdrawSucceedsOnListedPreconditions ==
    (/\ lastCall.op = "withdraw"
     /\ lastCall.sender = investor
     /\ lastCall.preBalance > 0
     /\ height >= deadline
     /\ lastCall.preCnt = 0 \/ height - deadline >= lastCall.preCnt * 200) =>
        LET payout == (hardCap * (IF lastCall.preCnt = 0 THEN 20 ELSE 10)) \div 100
        IN  /\ lastCall.status = OK
            /\ withdrawnCnt = lastCall.preCnt + 1
            /\ balance = lastCall.preBalance - payout
            /\ funds[investor] = lastCall.preFunds + payout

\* what the investor's next withdraw pays, at whatever height it succeeds
NextPayout == (hardCap * (IF withdrawnCnt = 0 THEN 20 ELSE 10)) \div 100

\* C16: a campaign with a positive balance at the deadline is emptied in the
\* end by an investor who withdraws whenever the schedule allows it.  Past
\* the deadline only a successful withdraw changes the balance and it pays
\* NextPayout at every height, so a state past the deadline with
\* 0 < balance < NextPayout keeps that balance for ever: the claim needs
\* every state past the deadline that holds funds to cover NextPayout.
C16_FundsNeverLocked ==
    (height > deadline /\ balance > 0) => balance >= NextPayout

\* C17: withdrawnCnt is 0 as long as the height is below the deadline, and
\* from the deadline on withdrawnCnt <= 1 + floor((height - deadline) / 200).
C17_WithdrawalsBoundedBySchedule ==
    /\ height < deadline => withdrawnCnt = 0 /\ NumWithdrawn = 0
    /\ height >= deadline =>
           /\ withdrawnCnt <= 1 + (height - deadline) \div 200
           /\ NumWithdrawn <= 1 + (height - deadline) \div 200

\* every withdrawal the schedule allows at this height has been made
C17_Witness ==
    /\ height - deadline = 400
    /\ withdrawnCnt = 3
    /\ WithdrawSucceeded

\* ---- cumulative amounts, from the event log ----
RECURSIVE TotalOf(_, _)
\* the sum of the amounts of the first n events that have the given type
TotalOf(type, n) ==
    IF n = 0 THEN 0
    ELSE TotalOf(type, n - 1)
         + (IF events[n].type = type THEN events[n].amount ELSE 0)

TotalContributed == TotalOf("Contributed", Len(events))

TotalWithdrawn == TotalOf("Withdrawn", Len(events))

\* C18: every successful withdraw pays out at most what the campaign held
\* before it, the campaign balance is never negative, and the total paid to
\* the investor never exceeds the total accepted from contributors.
C18_PayoutsCoveredByBalance ==
    /\ WithdrawSucceeded =>
           /\ events[Len(events)].amount <= lastCall.preBalance
           /\ lastCall.preBalance - balance <= lastCall.preBalance
    /\ balance >= 0
    /\ TotalWithdrawn <= TotalContributed

\* withdrawals have left less than the next payout in the campaign
C18_Witness ==
    /\ WithdrawSucceeded
    /\ NumWithdrawn >= 2
    /\ balance > 0
    /\ balance < NextPayout

\* C19: once a withdraw has succeeded no later contribute succeeds: no
\* Contributed event follows a Withdrawn event in the log.
C19_NoContributionAfterWithdrawal ==
    \A i, j \in DOMAIN events :
        (i < j /\ events[i].type = "Withdrawn") => events[j].type # "Contributed"

\* C20: the total accepted by contribute and the total paid out by withdraw
\* each stay at or below hardCap.
C20_CumulativeAmountsWithinHardCap ==
    /\ TotalContributed <= hardCap
    /\ TotalWithdrawn <= hardCap

====
